---- MODULE Spec2Model ----
(***************************************************************************)
(* EventHub API server: the three server files of the repository.          *)
(*   "memory"  : src/server.js          (events array, nextId counter)     *)
(*   "seeding" : src/unnamed/part_000   (MongoDB, seedInitialData)         *)
(*   "plain"   : src/unnamed/part_001   (MongoDB, no seeding)              *)
(* A JavaScript string is a sequence of characters; a text whose inner     *)
(* structure no handler looks at is written as one symbol, <<"...">>.      *)
(***************************************************************************)
EXTENDS Integers, Sequences, FiniteSets, TLC

VARIABLES variant, events, nextId, collection, nextOid, now, req, resp,
          seedPc, seedLog, initialCount, nCreated, nDeleted, deletedIds, ops

vars == <<variant, events, nextId, collection, nextOid, now, req, resp,
          seedPc, seedLog, initialCount, nCreated, nDeleted, deletedIds, ops>>

(***************************************************************************)
(* variant      which server file runs                                     *)
(* events       server.js: the events array                                *)
(* nextId       server.js: the id counter                                  *)
(* collection   part_000/part_001: the documents of Event, in stored order *)
(* nextOid      the number of the next ObjectId the driver generates       *)
(* now          the clock, as last read by a handler that changed the store*)
(* req, resp    the request handled last and the answer it got; a status   *)
(*              of 0 is a request that got no answer                       *)
(* seedPc       where each process's seedInitialData stands: "off" (the    *)
(*              process does not exist or does not seed), "count",         *)
(*              "insert", "done"                                           *)
(* History, for the properties only:                                       *)
(* seedLog      the size of the collection at each insertMany of the seeds *)
(* initialCount the number of records at the start                         *)
(* nCreated     successful POSTs; nDeleted, deletedIds: successful DELETEs *)
(* ops          requests that changed the store                            *)
(*                                                                         *)
(* A storage operation that fails (fails = TRUE) rejects without effect.   *)
(* The timestamp and the connection state of a health answer are left out. *)
(***************************************************************************)

\* ------------------------------------------------------------ bounds
\* Requests that change the store (successful POST, PUT, DELETE) per run.
MaxOps == 2

\* ------------------------------------------------------- JavaScript values
Undef == [ty |-> "undefined", n |-> 0, s |-> <<>>]

Str(cs) == [ty |-> "string", n |-> 0, s |-> cs]

Num(k) == [ty |-> "number", n |-> k, s |-> <<>>]

NaN == [ty |-> "number", n |-> 0, s |-> <<"NaN">>]

\* new Date(t): a Date value with time t.
DateOf(t) == [ty |-> "date", n |-> t, s |-> <<>>]

\* new Date(t).toISOString(): a string that names the time.
ToISOString(t) == Str(<<"T", ToString(t)>>)

\* An ObjectId is its 12 bytes, written as 24 hex characters.
ObjectId(hex) == [ty |-> "objectid", n |-> 0, s |-> hex]

\* !v is false
Truthy(v) == ~(v = Undef \/ v = Str(<<>>) \/ v = Num(0) \/ v = NaN)

\* a || b
OrElse(a, b) == IF Truthy(a) THEN a ELSE b

\* a === b
StrictEq(a, b) == a = b /\ a # NaN

\* ------------------------------------------------------------- parseInt
DigitChars == <<"0", "1", "2", "3", "4", "5", "6", "7", "8", "9">>

IsDigit(c) == \E i \in 1..10 : DigitChars[i] = c

DigitVal(c) == (CHOOSE i \in 1..10 : DigitChars[i] = c) - 1

RECURSIVE SkipSpaces(_)
SkipSpaces(cs) ==
    IF cs # <<>> /\ Head(cs) = " " THEN SkipSpaces(Tail(cs)) ELSE cs

\* The value of the longest prefix of digits of cs, after acc; found says
\* whether a digit was read.
RECURSIVE ReadDigits(_, _, _)
ReadDigits(cs, acc, found) ==
    IF cs # <<>> /\ IsDigit(Head(cs))
    THEN ReadDigits(Tail(cs), acc * 10 + DigitVal(Head(cs)), TRUE)
    ELSE [value |-> acc, found |-> found]

\* parseInt(string): leading blanks, an optional sign, then decimal digits up
\* to the first other character; NaN when there is no digit.
ParseInt(cs) ==
    LET t == SkipSpaces(cs)
        neg == t # <<>> /\ Head(t) = "-"
        u == IF t # <<>> /\ Head(t) \in {"-", "+"} THEN Tail(t) ELSE t
        r == ReadDigits(u, 0, FALSE)
    IN  IF ~r.found THEN NaN
        ELSE IF neg THEN Num(0 - r.value) ELSE Num(r.value)

\* ------------------------------------------------------ events (server.js)
RequiredMem == {"title", "shortDescription", "fullDescription", "date",
                "location", "price"}

RequiredDb == RequiredMem \cup {"createdBy"}

OptionalFields == {"time", "category", "imageUrl"}

SchemaFields == RequiredDb \cup OptionalFields

\* The keys a request body may carry.
BodyKeys == SchemaFields \cup {"id"}

\* The keys of an object of the events array.
EventKeys == BodyKeys \cup {"createdAt", "updatedAt"}

Default(k) ==
    CASE k = "time" -> Str(<<"09:00">>)
      [] k = "category" -> Str(<<"Other">>)
      [] k = "imageUrl" -> Str(<<"U+1F4C5">>)

MemEvent(id, title, shortD, fullD, date, time, location, price, category, imageUrl, createdAt) ==
    [k \in EventKeys |->
        CASE k = "id" -> Num(id)
          [] k = "title" -> Str(<<title>>)
          [] k = "shortDescription" -> Str(<<shortD>>)
          [] k = "fullDescription" -> Str(<<fullD>>)
          [] k = "date" -> Str(<<date>>)
          [] k = "time" -> Str(<<time>>)
          [] k = "location" -> Str(<<location>>)
          [] k = "price" -> Str(<<price>>)
          [] k = "category" -> Str(<<category>>)
          [] k = "imageUrl" -> Str(<<imageUrl>>)
          [] k = "createdAt" -> createdAt
          [] OTHER -> Undef]

InitialEvents ==
    << MemEvent(1, "Tech Conference 2024",
                "Join us for the biggest tech conference featuring industry leaders and innovators...",
                "Join us for the biggest tech conference of the year! ...",
                "2024-12-15", "09:00", "Moscone Center, San Francisco, CA",
                "$299", "Technology", "U+1F680", ToISOString(0)),
       MemEvent(2, "Music Festival Summer",
                "Experience three days of amazing music performances from top artists worldwide...",
                "Experience three unforgettable days of amazing music performances ...",
                "2025-01-20", "12:00", "Zilker Park, Austin, TX",
                "$150", "Music", "U+1F3B5", ToISOString(0)),
       MemEvent(3, "Food & Wine Expo",
                "Taste exquisite dishes and wines from renowned chefs and sommeliers...",
                "Taste exquisite dishes and wines from renowned chefs and sommeliers from around the world. ...",
                "2025-02-05", "10:00", "Javits Center, New York, NY",
                "$75", "Food", "U+1F377", ToISOString(0)) >>

InitialNextId == 4

\* --------------------------------------------------- requests and responses
NoBody == [k \in BodyKeys |-> Undef]

Request(method, route, param, body, fails) ==
    [method |-> method, route |-> route, param |-> param, body |-> body,
     fails |-> fails]

\* res.status(status).json(...): body holds the records sent (a list, one
\* record, or none), error the error text, count the number a health
\* response reports.
Response(status, error, body, count) ==
    [status |-> status, error |-> error, body |-> body, count |-> count]

NoRequest == Request("none", "", <<>>, NoBody, FALSE)

NoResponse == Response(0, "", <<>>, 0)

\* The request bodies that are sent.
MinBody ==
    [k \in BodyKeys |->
        CASE k \in RequiredMem -> Str(<<"a">>)
          [] k = "createdBy" -> Str(<<"u", "A">>)
          [] OTHER -> Undef]

FullBody ==
    [MinBody EXCEPT !["time"] = Str(<<"18:30">>),
                    !["category"] = Str(<<"Music">>),
                    !["imageUrl"] = Str(<<"U+1F3B5">>),
                    !["createdBy"] = Str(<<"u", "%", "4", "1">>)]

PostBodies ==
    {MinBody, FullBody}
    \cup {[MinBody EXCEPT ![k] = Undef] : k \in RequiredDb}
    \cup {[MinBody EXCEPT !["title"] = Str(<<>>)],
          [MinBody EXCEPT !["price"] = Num(0)],
          [MinBody EXCEPT !["price"] = Num(7)],
          [MinBody EXCEPT !["time"] = Str(<<>>)]}

PutBodies ==
    {[NoBody EXCEPT !["title"] = Str(<<"b">>)],
     [NoBody EXCEPT !["id"] = Num(2), !["title"] = Str(<<>>)]}

\* The :id path parameters that are sent to the in-memory server.
MemIdParams == {<<"3">>, <<"4">>, <<"3", "a">>, <<"a", "b", "c">>}

\* The time a handler that changes the store reads from the clock: each such
\* request is handled later than the one before it.
Later == now + 1

\* ------------------------------------------------- handlers of server.js
\* events.findIndex(e => e.id === id): the first index, 0 for the code's -1.
FindIndex(evs, id) ==
    IF \E i \in 1..Len(evs) : StrictEq(evs[i]["id"], id)
    THEN CHOOSE i \in 1..Len(evs) :
            /\ StrictEq(evs[i]["id"], id)
            /\ \A j \in 1..(i - 1) : ~StrictEq(evs[j]["id"], id)
    ELSE 0

\* events.splice(i, 1)
Splice(evs, i) == [j \in 1..(Len(evs) - 1) |-> IF j < i THEN evs[j] ELSE evs[j + 1]]

\* Mutant: the validation forgets price.
MissingRequiredMem_NoPrice(b) == \E k \in RequiredMem \ {"price"} : ~Truthy(b[k])

MissingRequiredMem(b) == \E k \in RequiredMem : ~Truthy(b[k])

\* Mutant: time, category and imageUrl are copied without their defaults.
NewEvent_NoDefaults(b, id, t) ==
    [k \in EventKeys |->
        CASE k = "id" -> Num(id)
          [] k \in RequiredMem \cup OptionalFields -> b[k]
          [] k = "createdAt" -> ToISOString(t)
          [] OTHER -> Undef]

\* Mutant: the id is the length of the list plus one, not the counter.
NewEvent_ReuseId(b, id, t) ==
    [k \in EventKeys |->
        CASE k = "id" -> Num(Len(events) + 1)
          [] k \in RequiredMem -> b[k]
          [] k \in OptionalFields -> OrElse(b[k], Default(k))
          [] k = "createdAt" -> ToISOString(t)
          [] OTHER -> Undef]

\* Mutant: the id follows the id of the last event of the list.
NewEvent_IdAfterLast(b, id, t) ==
    [k \in EventKeys |->
        CASE k = "id" -> Num(IF events = <<>> THEN 1 ELSE events[Len(events)]["id"].n + 1)
          [] k \in RequiredMem -> b[k]
          [] k \in OptionalFields -> OrElse(b[k], Default(k))
          [] k = "createdAt" -> ToISOString(t)
          [] OTHER -> Undef]

NewEvent(b, id, t) ==
    [k \in EventKeys |->
        CASE k = "id" -> Num(id)
          [] k \in RequiredMem -> b[k]
          [] k \in OptionalFields -> OrElse(b[k], Default(k))
          [] k = "createdAt" -> ToISOString(t)
          [] OTHER -> Undef]

\* Mutant: id: old.id is spread before the body, so the body's id wins.
UpdatedEvent_BodyIdWins(old, b, t) ==
    [k \in EventKeys |->
        CASE k = "updatedAt" -> ToISOString(t)
          [] k \in BodyKeys /\ b[k] # Undef -> b[k]
          [] OTHER -> old[k]]

\* Mutant: the record is replaced by the body, { ...body, id, updatedAt }.
UpdatedEvent_Replace(old, b, t) ==
    [k \in EventKeys |->
        CASE k = "id" -> old["id"]
          [] k = "updatedAt" -> ToISOString(t)
          [] k \in BodyKeys -> b[k]
          [] OTHER -> Undef]

\* { ...old, ...body, id: old.id, updatedAt: ... }
UpdatedEvent(old, b, t) ==
    [k \in EventKeys |->
        CASE k = "id" -> old["id"]
          [] k = "updatedAt" -> ToISOString(t)
          [] k \in BodyKeys /\ b[k] # Undef -> b[k]
          [] OTHER -> old[k]]

DbUnchanged == UNCHANGED <<collection, nextOid, seedPc, seedLog>>

HistoryUnchanged == UNCHANGED <<nCreated, nDeleted, deletedIds, ops>>

\* app.get('/health')
HealthMem ==
    /\ variant = "memory"
    /\ req' = Request("GET", "/health", <<>>, NoBody, FALSE)
    /\ resp' = Response(200, "", <<>>, Len(events))
    /\ UNCHANGED <<variant, events, nextId, now, initialCount>>
    /\ DbUnchanged /\ HistoryUnchanged

\* app.get('/api/events')
GetEventsMem ==
    /\ variant = "memory"
    /\ req' = Request("GET", "/api/events", <<>>, NoBody, FALSE)
    /\ resp' = Response(200, "", events, 0)
    /\ UNCHANGED <<variant, events, nextId, now, initialCount>>
    /\ DbUnchanged /\ HistoryUnchanged

\* app.get('/api/events/:id')
GetEventByIdMem(p) ==
    /\ variant = "memory"
    /\ req' = Request("GET", "/api/events/:id", p, NoBody, FALSE)
    /\ LET i == FindIndex(events, ParseInt(p))
       IN  resp' = IF i = 0 THEN Response(404, "Event not found", <<>>, 0)
                   ELSE Response(200, "", <<events[i]>>, 0)
    /\ UNCHANGED <<variant, events, nextId, now, initialCount>>
    /\ DbUnchanged /\ HistoryUnchanged

\* app.post('/api/events')
PostEventMem(b) ==
    /\ variant = "memory"
    /\ req' = Request("POST", "/api/events", <<>>, b, FALSE)
    /\ IF MissingRequiredMem(b)
       THEN /\ resp' = Response(400, "Missing required fields", <<>>, 0)
            /\ UNCHANGED <<events, nextId, now>>
            /\ HistoryUnchanged
       ELSE /\ ops < MaxOps
            /\ LET newEvent == NewEvent(b, nextId, Later)
               IN  /\ nextId' = nextId + 1
                   /\ events' = Append(events, newEvent)
                   /\ resp' = Response(201, "", <<newEvent>>, 0)
            /\ now' = Later
            /\ nCreated' = nCreated + 1
            /\ ops' = ops + 1
            /\ UNCHANGED <<nDeleted, deletedIds>>
    /\ UNCHANGED <<variant, initialCount>>
    /\ DbUnchanged

\* app.put('/api/events/:id')
PutEventMem(p, b) ==
    /\ variant = "memory"
    /\ req' = Request("PUT", "/api/events/:id", p, b, FALSE)
    /\ LET eventIndex == FindIndex(events, ParseInt(p))
       IN  IF eventIndex = 0
           THEN /\ resp' = Response(404, "Event not found", <<>>, 0)
                /\ UNCHANGED <<events, now, ops>>
           ELSE /\ ops < MaxOps
                /\ LET updatedEvent == UpdatedEvent(events[eventIndex], b, Later)
                   IN  /\ events' = [events EXCEPT ![eventIndex] = updatedEvent]
                       /\ resp' = Response(200, "", <<updatedEvent>>, 0)
                /\ now' = Later
                /\ ops' = ops + 1
    /\ UNCHANGED <<variant, nextId, initialCount, nCreated, nDeleted, deletedIds>>
    /\ DbUnchanged

\* app.delete('/api/events/:id')
DeleteEventMem(p) ==
    /\ variant = "memory"
    /\ req' = Request("DELETE", "/api/events/:id", p, NoBody, FALSE)
    /\ LET eventIndex == FindIndex(events, ParseInt(p))
       IN  IF eventIndex = 0
           THEN /\ resp' = Response(404, "Event not found", <<>>, 0)
                /\ UNCHANGED <<events, nDeleted, deletedIds, ops>>
           ELSE /\ ops < MaxOps
                /\ LET deletedEvent == events[eventIndex]
                   IN  /\ events' = Splice(events, eventIndex)
                       /\ resp' = Response(200, "", <<deletedEvent>>, 0)
                       /\ deletedIds' = deletedIds \cup {deletedEvent["id"]}
                /\ nDeleted' = nDeleted + 1
                /\ ops' = ops + 1
    /\ UNCHANGED <<variant, nextId, now, initialCount, nCreated>>
    /\ DbUnchanged

\* ------------------------------------------- the Event model (part_000/001)
DocKeys == SchemaFields \cup {"_id", "createdAt"}

HexChars == <<"0", "1", "2", "3", "4", "5", "6", "7", "8", "9", "a", "b", "c", "d", "e", "f">>

IsHex(c) == \E i \in 1..16 : HexChars[i] = c

HexVal(c) == (CHOOSE i \in 1..16 : HexChars[i] = c) - 1

\* The k-th identifier the driver generates: identifiers are unique.
OidHex(k) ==
    [i \in 1..24 |->
        IF i = 24 THEN HexChars[(k % 16) + 1]
        ELSE IF i = 23 THEN HexChars[((k \div 16) % 16) + 1]
        ELSE "0"]

\* Mongoose's cast of a string to an ObjectId: 24 hex characters, else a
\* CastError.
CastObjectId(p) ==
    IF Len(p) = 24 /\ \A i \in 1..24 : IsHex(p[i])
    THEN [ok |-> TRUE, id |-> ObjectId(p)]
    ELSE [ok |-> FALSE, id |-> Undef]

\* The schema's { type: String }: a number is cast to its decimal text.
CastString(v) ==
    IF v.ty = "number" /\ v # NaN THEN Str(<<ToString(v.n)>>) ELSE v

\* The schema's { required: true } on a String path.
SchemaValid(doc) == \A k \in RequiredDb : doc[k].ty = "string" /\ doc[k].s # <<>>

\* new Event({...}) with the schema's casts and defaults, given its _id and
\* the time createdAt defaults to.
NewDocument(fields, oid, t) ==
    [k \in DocKeys |->
        CASE k = "_id" -> ObjectId(OidHex(oid))
          [] k = "createdAt" -> DateOf(t)
          [] k \in OptionalFields ->
                IF fields[k] = Undef THEN Default(k) ELSE CastString(fields[k])
          [] OTHER -> CastString(fields[k])]

SeedFields(title, shortD, fullD, date, time, location, price, category, imageUrl) ==
    [k \in SchemaFields |->
        CASE k = "title" -> Str(<<title>>)
          [] k = "shortDescription" -> Str(<<shortD>>)
          [] k = "fullDescription" -> Str(<<fullD>>)
          [] k = "date" -> Str(<<date>>)
          [] k = "time" -> Str(<<time>>)
          [] k = "location" -> Str(<<location>>)
          [] k = "price" -> Str(<<price>>)
          [] k = "category" -> Str(<<category>>)
          [] k = "imageUrl" -> Str(<<imageUrl>>)
          [] k = "createdBy" -> Str(<<"demo@example.com">>)]

initialEvents ==
    << SeedFields("Tech Conference 2024",
                  "Join us for the biggest tech conference featuring industry leaders and innovators",
                  "Join us for the biggest tech conference of the year! ...",
                  "2024-12-15", "09:00", "Moscone Center, San Francisco, CA",
                  "$299", "Technology", "U+1F680"),
       SeedFields("Music Festival Summer",
                  "Experience three days of amazing music performances from top artists worldwide",
                  "Experience three unforgettable days of amazing music performances ...",
                  "2025-01-20", "12:00", "Zilker Park, Austin, TX",
                  "$150", "Music", "U+1F3B5"),
       SeedFields("Food & Wine Expo",
                  "Taste exquisite dishes and wines from renowned chefs and sommeliers",
                  "Taste exquisite dishes and wines from renowned chefs and sommeliers from around the world. ...",
                  "2025-02-05", "10:00", "Javits Center, New York, NY",
                  "$75", "Food", "U+1F377"),
       SeedFields("Startup Pitch Day",
                  "Watch innovative startups pitch their ideas to top venture capitalists",
                  "Watch innovative startups pitch their groundbreaking ideas ...",
                  "2025-03-10", "09:00", "Innovation Hub, Seattle, WA",
                  "Free", "Business", "U+1F4BC"),
       SeedFields("Art Gallery Opening",
                  "Explore contemporary art from emerging and established artists",
                  "Explore contemporary art from emerging and established artists at this exclusive gallery opening. ...",
                  "2025-04-12", "18:00", "Modern Art Museum, Los Angeles, CA",
                  "$25", "Art", "U+1F3A8"),
       SeedFields("Marathon Challenge",
                  "Run for a cause in our annual charity marathon supporting local communities",
                  "Run for a cause in our annual charity marathon supporting local communities. ...",
                  "2025-05-01", "06:00", "City Center, Boston, MA",
                  "$50", "Sports", "U+1F3C3") >>

\* A document an earlier run of a server left in the collection.
EarlierDocument ==
    NewDocument([MinBody EXCEPT !["title"] = Str(<<"Earlier Event">>)], 255, 0)

\* The :id path parameters that are sent to the database servers.
DbIdParams == {OidHex(1), OidHex(255), OidHex(200), <<"1">>}

\* The :email path parameters, as the router hands them to the handler (it
\* has percent-decoded the path segment once).
EmailParams == {<<"demo@example.com">>, <<"u", "A">>, <<"u", "%", "4", "1">>, <<"%">>}

\* ------------------------------------------------------ decodeURIComponent
\* The character of an ASCII code.
CharOfCode(code) ==
    CASE code = 37 -> "%"
      [] code = 64 -> "@"
      [] code = 65 -> "A"
      [] OTHER -> "#" \o ToString(code)

\* decodeURIComponent(cs): each %XX becomes the character of that code; a
\* URIError when % is not followed by two hex digits or the byte is no
\* character by itself.
RECURSIVE DecodeURIComponent(_)
DecodeURIComponent(cs) ==
    IF cs = <<>> THEN [ok |-> TRUE, s |-> <<>>]
    ELSE IF Head(cs) # "%"
    THEN LET r == DecodeURIComponent(Tail(cs))
         IN  [ok |-> r.ok, s |-> <<Head(cs)>> \o r.s]
    ELSE IF Len(cs) < 3 \/ ~IsHex(cs[2]) \/ ~IsHex(cs[3])
                \/ HexVal(cs[2]) * 16 + HexVal(cs[3]) >= 128
    THEN [ok |-> FALSE, s |-> <<>>]
    ELSE LET r == DecodeURIComponent(SubSeq(cs, 4, Len(cs)))
         IN  [ok |-> r.ok, s |-> <<CharOfCode(HexVal(cs[2]) * 16 + HexVal(cs[3]))>> \o r.s]

\* ------------------------------------------------------- queries of Event
\* The index of the document with this _id, 0 when there is none.
IndexOfId(docs, oid) ==
    IF \E i \in 1..Len(docs) : docs[i]["_id"] = oid
    THEN CHOOSE i \in 1..Len(docs) : docs[i]["_id"] = oid
    ELSE 0

RemoveAt(docs, i) == [j \in 1..(Len(docs) - 1) |-> IF j < i THEN docs[j] ELSE docs[j + 1]]

\* d put into acc, which is sorted by createdAt descending, after the
\* documents that are not older.
InsertDesc(acc, d) ==
    LET k == Cardinality({i \in 1..Len(acc) : acc[i]["createdAt"].n >= d["createdAt"].n})
    IN  SubSeq(acc, 1, k) \o <<d>> \o SubSeq(acc, k + 1, Len(acc))

RECURSIVE SortInto(_, _)
SortInto(docs, acc) ==
    IF docs = <<>> THEN acc ELSE SortInto(Tail(docs), InsertDesc(acc, Head(docs)))

\* Mutant: a sort that keeps one document per createdAt.
SortByCreatedAtDesc_OnePerTime(docs) ==
    SortInto(SelectSeq(docs, LAMBDA d :
                d = docs[CHOOSE i \in 1..Len(docs) : docs[i]["createdAt"] = d["createdAt"]]),
             <<>>)

\* .sort({ createdAt: -1 }); documents of one time stay in stored order.
SortByCreatedAtDesc(docs) == SortInto(docs, <<>>)

\* Event.find({ createdBy: email })
FindByCreatedBy(docs, email) == SelectSeq(docs, LAMBDA d : d["createdBy"] = Str(email))

\* Event.insertMany(initialEvents): one document each, with fresh _ids.
InsertMany(docs, fieldsList, oid, t) ==
    docs \o [i \in 1..Len(fieldsList) |-> NewDocument(fieldsList[i], oid + i - 1, t)]

MissingRequiredDb(b) == \E k \in RequiredDb : ~Truthy(b[k])

\* The object the POST handler hands to new Event(...).
PostFields(b) ==
    [k \in SchemaFields |-> IF k \in OptionalFields THEN OrElse(b[k], Default(k)) ELSE b[k]]

IsDb == variant \in {"seeding", "plain"}

MemUnchanged == UNCHANGED <<events, nextId>>

SeedUnchanged == UNCHANGED <<seedPc, seedLog>>

\* ------------------------------------------------------- seedInitialData
\* const count = await Event.countDocuments()
SeedCount(i, fails) ==
    /\ variant = "seeding"
    /\ seedPc[i] = "count"
    /\ LET count == Len(collection)
       IN  seedPc' = [seedPc EXCEPT ![i] = IF ~fails /\ count = 0 THEN "insert" ELSE "done"]
    /\ UNCHANGED <<variant, collection, nextOid, now, req, resp, seedLog, initialCount>>
    /\ MemUnchanged /\ HistoryUnchanged

\* await Event.insertMany(initialEvents)
SeedInsert(i, fails) ==
    /\ variant = "seeding"
    /\ seedPc[i] = "insert"
    /\ seedPc' = [seedPc EXCEPT ![i] = "done"]
    /\ IF fails
       THEN UNCHANGED <<collection, nextOid, now, seedLog>>
       ELSE /\ collection' = InsertMany(collection, initialEvents, nextOid, Later)
            /\ nextOid' = nextOid + Len(initialEvents)
            /\ now' = Later
            /\ seedLog' = Append(seedLog, Len(collection))
    /\ UNCHANGED <<variant, req, resp, initialCount>>
    /\ MemUnchanged /\ HistoryUnchanged

\* ------------------------------------------ handlers of part_000, part_001
\* fails says that the storage operation of the request rejects; it is chosen
\* only for a request that reaches its storage operation.
\* app.get('/health') of part_000: no try/catch around countDocuments. A
\* rejection is answered 500 by a router that forwards rejected promises to
\* its default error handler, and is never answered (status 0) by one that
\* does not.
HealthSeeding(fails, forwarded) ==
    /\ variant = "seeding"
    /\ forwarded => fails
    /\ req' = Request("GET", "/health", <<>>, NoBody, fails)
    /\ resp' = IF ~fails THEN Response(200, "", <<>>, Len(collection))
               ELSE IF forwarded THEN Response(500, "Internal Server Error", <<>>, 0)
               ELSE NoResponse
    /\ UNCHANGED <<variant, collection, nextOid, now, initialCount>>
    /\ MemUnchanged /\ SeedUnchanged /\ HistoryUnchanged

\* app.get('/health') of part_001: no storage operation.
HealthPlain ==
    /\ variant = "plain"
    /\ req' = Request("GET", "/health", <<>>, NoBody, FALSE)
    /\ resp' = Response(200, "", <<>>, 0)
    /\ UNCHANGED <<variant, collection, nextOid, now, initialCount>>
    /\ MemUnchanged /\ SeedUnchanged /\ HistoryUnchanged

\* app.get('/api/events')
GetEventsDb(fails) ==
    /\ IsDb
    /\ req' = Request("GET", "/api/events", <<>>, NoBody, fails)
    /\ resp' = IF fails THEN Response(500, "Failed to fetch events", <<>>, 0)
               ELSE Response(200, "", SortByCreatedAtDesc(collection), 0)
    /\ UNCHANGED <<variant, collection, nextOid, now, initialCount>>
    /\ MemUnchanged /\ SeedUnchanged /\ HistoryUnchanged

\* app.get('/api/events/:id')
GetEventByIdDb(p, fails) ==
    /\ IsDb
    /\ ~CastObjectId(p).ok => ~fails
    /\ req' = Request("GET", "/api/events/:id", p, NoBody, fails)
    /\ LET cast == CastObjectId(p)
           i == IndexOfId(collection, cast.id)
       IN  resp' = IF ~cast.ok \/ fails THEN Response(404, "Event not found", <<>>, 0)
                   ELSE IF i = 0 THEN Response(404, "Event not found", <<>>, 0)
                   ELSE Response(200, "", <<collection[i]>>, 0)
    /\ UNCHANGED <<variant, collection, nextOid, now, initialCount>>
    /\ MemUnchanged /\ SeedUnchanged /\ HistoryUnchanged

\* app.get('/api/events/user/:email') of part_000
GetUserEventsSeeding(email, fails) ==
    /\ variant = "seeding"
    /\ ~DecodeURIComponent(email).ok => ~fails
    /\ req' = Request("GET", "/api/events/user/:email", email, NoBody, fails)
    /\ LET userEmail == DecodeURIComponent(email)
       IN  resp' = IF ~userEmail.ok \/ fails
                   THEN Response(500, "Failed to fetch user events", <<>>, 0)
                   ELSE Response(200, "", SortByCreatedAtDesc(FindByCreatedBy(collection, userEmail.s)), 0)
    /\ UNCHANGED <<variant, collection, nextOid, now, initialCount>>
    /\ MemUnchanged /\ SeedUnchanged /\ HistoryUnchanged

\* app.get('/api/events/user/:email') of part_001
GetUserEventsPlain(email, fails) ==
    /\ variant = "plain"
    /\ req' = Request("GET", "/api/events/user/:email", email, NoBody, fails)
    /\ resp' = IF fails THEN Response(500, "Failed to fetch events", <<>>, 0)
               ELSE Response(200, "", SortByCreatedAtDesc(FindByCreatedBy(collection, email)), 0)
    /\ UNCHANGED <<variant, collection, nextOid, now, initialCount>>
    /\ MemUnchanged /\ SeedUnchanged /\ HistoryUnchanged

\* app.post('/api/events')
PostEventDb(b, fails) ==
    /\ IsDb
    /\ MissingRequiredDb(b) => ~fails
    /\ req' = Request("POST", "/api/events", <<>>, b, fails)
    /\ LET event == NewDocument(PostFields(b), nextOid, Later)
       IN  IF MissingRequiredDb(b)
           THEN /\ resp' = Response(400, "Missing required fields", <<>>, 0)
                /\ UNCHANGED <<collection, nextOid, now>>
                /\ HistoryUnchanged
           ELSE IF fails \/ ~SchemaValid(event)
           THEN /\ resp' = Response(500, "Failed to create event", <<>>, 0)
                /\ UNCHANGED <<collection, nextOid, now>>
                /\ HistoryUnchanged
           ELSE /\ ops < MaxOps
                /\ collection' = Append(collection, event)
                /\ nextOid' = nextOid + 1
                /\ now' = Later
                /\ resp' = Response(201, "", <<event>>, 0)
                /\ nCreated' = nCreated + 1
                /\ ops' = ops + 1
                /\ UNCHANGED <<nDeleted, deletedIds>>
    /\ UNCHANGED <<variant, initialCount>>
    /\ MemUnchanged /\ SeedUnchanged

\* app.delete('/api/events/:id')
DeleteEventDb(p, fails) ==
    /\ IsDb
    /\ ~CastObjectId(p).ok => ~fails
    /\ req' = Request("DELETE", "/api/events/:id", p, NoBody, fails)
    /\ LET cast == CastObjectId(p)
           i == IndexOfId(collection, cast.id)
       IN  IF ~cast.ok \/ fails
           THEN /\ resp' = Response(500, "Failed to delete event", <<>>, 0)
                /\ UNCHANGED <<collection, nDeleted, deletedIds, ops>>
           ELSE IF i = 0
           THEN /\ resp' = Response(404, "Event not found", <<>>, 0)
                /\ UNCHANGED <<collection, nDeleted, deletedIds, ops>>
           ELSE /\ ops < MaxOps
                /\ collection' = RemoveAt(collection, i)
                /\ resp' = Response(200, "", <<collection[i]>>, 0)
                /\ deletedIds' = deletedIds \cup {collection[i]["_id"]}
                /\ nDeleted' = nDeleted + 1
                /\ ops' = ops + 1
    /\ UNCHANGED <<variant, nextOid, now, initialCount, nCreated>>
    /\ MemUnchanged /\ SeedUnchanged

\* ------------------------------------------------------------ the system
InitMem ==
    /\ variant = "memory"
    /\ events = InitialEvents
    /\ nextId = InitialNextId
    /\ collection = <<>>
    /\ nextOid = 1
    /\ seedPc = [i \in {1, 2} |-> "off"]
    /\ seedLog = <<>>
    /\ initialCount = Len(InitialEvents)

\* The collection outlives the server: it starts empty or with what an earlier
\* run left. Server 1 is this server, which seeds when it is part_000.
InitDb ==
    /\ variant \in {"seeding", "plain"}
    /\ events = <<>>
    /\ nextId = 0
    /\ collection \in {<<>>, <<EarlierDocument>>}
    /\ nextOid = 1
    /\ seedPc = [i \in {1, 2} |-> IF variant = "seeding" /\ i = 1 THEN "count" ELSE "off"]
    /\ seedLog = <<>>
    /\ initialCount = Len(collection)

InitCommon ==
    /\ now = 0
    /\ req = NoRequest
    /\ resp = NoResponse
    /\ nCreated = 0
    /\ nDeleted = 0
    /\ deletedIds = {}
    /\ ops = 0

Init == InitCommon /\ (InitMem \/ InitDb)

\* Two instances of part_000 started on the same collection.
InitTwoServers ==
    /\ InitCommon
    /\ variant = "seeding"
    /\ events = <<>>
    /\ nextId = 0
    /\ collection \in {<<>>, <<EarlierDocument>>}
    /\ nextOid = 1
    /\ seedPc = [i \in {1, 2} |-> "count"]
    /\ seedLog = <<>>
    /\ initialCount = Len(collection)

Next ==
    \/ HealthMem
    \/ GetEventsMem
    \/ \E p \in MemIdParams : GetEventByIdMem(p)
    \/ \E b \in PostBodies : PostEventMem(b)
    \/ \E p \in MemIdParams, b \in PutBodies : PutEventMem(p, b)
    \/ \E p \in MemIdParams : DeleteEventMem(p)
    \/ \E fails \in BOOLEAN : SeedCount(1, fails)
    \/ \E fails \in BOOLEAN : SeedInsert(1, fails)
    \/ HealthPlain
    \/ \E fails \in BOOLEAN : GetEventsDb(fails)
    \/ \E p \in DbIdParams, fails \in BOOLEAN : GetEventByIdDb(p, fails)
    \/ \E e \in EmailParams, fails \in BOOLEAN : GetUserEventsSeeding(e, fails)
    \/ \E e \in EmailParams, fails \in BOOLEAN : GetUserEventsPlain(e, fails)
    \/ \E b \in PostBodies, fails \in BOOLEAN : PostEventDb(b, fails)
    \/ \E p \in DbIdParams, fails \in BOOLEAN : DeleteEventDb(p, fails)
    \/ \E fails \in BOOLEAN, forwarded \in BOOLEAN : HealthSeeding(fails, forwarded)

Spec == Init /\ [][Next]_vars

\* The requests that reach either of two instances of part_000, and the
\* seeding of both.
NextTwoServers ==
    \/ \E i \in {1, 2}, fails \in BOOLEAN : SeedCount(i, fails)
    \/ \E i \in {1, 2}, fails \in BOOLEAN : SeedInsert(i, fails)
    \/ \E fails \in BOOLEAN : GetEventsDb(fails)
    \/ \E b \in PostBodies, fails \in BOOLEAN : PostEventDb(b, fails)
    \/ \E p \in DbIdParams, fails \in BOOLEAN : DeleteEventDb(p, fails)

SpecTwoServers == InitTwoServers /\ [][NextTwoServers]_vars

\* ================================================================ claims
\* The records of the store, in stored order.
Store == IF variant = "memory" THEN events ELSE collection

\* The fields POST requires.
RequiredFields == IF variant = "memory" THEN RequiredMem ELSE RequiredDb

\* The fields POST copies from the request.
CopiedFields == IF variant = "memory" THEN RequiredMem \cup OptionalFields ELSE SchemaFields

\* A step that handles a request: every step of seedInitialData moves its pc.
RequestStep == seedPc' = seedPc

IsPost(r) == r.method = "POST" /\ r.route = "/api/events"

IsList(r) == r.method = "GET" /\ r.route = "/api/events"

IsGetById(r) == r.method = "GET" /\ r.route = "/api/events/:id"

IsGetByUser(r) == r.method = "GET" /\ r.route = "/api/events/user/:email"

IsPut(r) == r.method = "PUT" /\ r.route = "/api/events/:id"

IsDelete(r) == r.method = "DELETE" /\ r.route = "/api/events/:id"

\* The index in the store of the record a request's :id identifies, 0 when it
\* identifies none.
Identified(r) ==
    IF variant = "memory" THEN FindIndex(events, ParseInt(r.param))
    ELSE IF CastObjectId(r.param).ok THEN IndexOfId(collection, CastObjectId(r.param).id)
    ELSE 0

\* The identifier a request's :id names.
NamedId(r) == IF variant = "memory" THEN ParseInt(r.param) ELSE CastObjectId(r.param).id

\* The last record of the store is new, and the records before it are those
\* of the store before the step.
OneRecordAdded ==
    /\ Len(Store') = Len(Store) + 1
    /\ SubSeq(Store', 1, Len(Store)) = Store

StoreUnchanged == UNCHANGED <<events, nextId, collection, nextOid>>

\* C1 as stated: a POST whose required fields are all present is answered 201
\* and adds exactly one record, whose fields equal the request's, with time,
\* category and imageUrl defaulted when absent; the record returned is the
\* one stored and the earlier records are unchanged.
C1_Original ==
    [][(RequestStep /\ IsPost(req') /\ \A k \in RequiredFields : req'.body[k] # Undef)
        => /\ resp'.status = 201
           /\ OneRecordAdded
           /\ resp'.body = <<Store'[Len(Store')]>>
           /\ \A k \in CopiedFields :
                Store'[Len(Store')][k] =
                    IF k \in OptionalFields /\ req'.body[k] = Undef
                    THEN Default(k) ELSE req'.body[k]]_vars

\* What the store keeps of a request's value: the schema of the database
\* variants casts it to a string.
Kept(v) == IF variant = "memory" THEN v ELSE CastString(v)

\* C1, amended: a POST whose required fields are all present and truthy (not
\* '' and not 0), and whose save (in the database variants) succeeds, is
\* answered 201 and adds exactly one record; each copied field of the record
\* equals the request's value (cast to a string in the database variants),
\* with time, category and imageUrl defaulted when absent or falsy; the
\* record returned is the one stored and the earlier records are unchanged.
C1_PostCreates ==
    [][(RequestStep /\ IsPost(req') /\ ~req'.fails
            /\ \A k \in RequiredFields : Truthy(req'.body[k]))
        => /\ resp'.status = 201
           /\ OneRecordAdded
           /\ resp'.body = <<Store'[Len(Store')]>>
           /\ \A k \in CopiedFields :
                Store'[Len(Store')][k] =
                    IF k \in OptionalFields /\ ~Truthy(req'.body[k])
                    THEN Default(k) ELSE Kept(req'.body[k])]_vars

\* A POST without time was answered 201 by a database variant, the record
\* stored last carrying the default time.
C1_Witness ==
    /\ IsPost(req) /\ resp.status = 201 /\ variant = "plain"
    /\ req.body["time"] = Undef
    /\ collection # <<>>
    /\ collection[Len(collection)]["time"] = Str(<<"09:00">>)
    /\ resp.body = <<collection[Len(collection)]>>

\* C2: a POST in which a required field is missing is answered 400 and leaves
\* the store unchanged: no record is added and nextId is not consumed.
C2_MissingFieldRejected ==
    [][(RequestStep /\ IsPost(req') /\ \E k \in RequiredFields : req'.body[k] = Undef)
        => (resp'.status = 400 /\ StoreUnchanged)]_vars

\* A POST without price was answered 400 by the in-memory server.
C2_Witness ==
    /\ IsPost(req) /\ resp.status = 400 /\ variant = "memory"
    /\ req.body["price"] = Undef
    /\ \A k \in RequiredMem \ {"price"} : req.body[k] # Undef

\* C3 as stated: after N successful creates and no deletes, GET /api/events
\* returns exactly N records.
C3_Original ==
    [][(RequestStep /\ IsList(req') /\ nDeleted = 0)
        => (resp'.status = 200 /\ Len(resp'.body) = nCreated)]_vars

\* C3, amended: after N successful creates and no deletes, a GET /api/events
\* whose find succeeds returns exactly N records more than the store holds
\* without them: the 3 built-in events of the in-memory variant, and in the
\* database variants the documents the collection held at the start plus the
\* 6 of each seed batch inserted since.
C3_ListCount ==
    [][(RequestStep /\ IsList(req') /\ nDeleted = 0 /\ ~req'.fails)
        => /\ resp'.status = 200
           /\ Len(resp'.body) = initialCount + Len(initialEvents) * Len(seedLog) + nCreated]_vars

\* A list was returned after a create and the seeding of an empty collection.
C3_Witness ==
    /\ IsList(req) /\ resp.status = 200 /\ variant = "seeding"
    /\ nCreated = 1 /\ nDeleted = 0 /\ Len(seedLog) = 1
    /\ Len(resp.body) = 7

\* C4: a DELETE whose :id identifies no stored record (in the database
\* variants also an id that is no well-formed document identifier) is
\* answered 404 and leaves the store unchanged. Stated for the requests whose
\* storage operation does not fail.
C4_UnknownIdDelete ==
    [][(RequestStep /\ IsDelete(req') /\ ~req'.fails /\ Identified(req') = 0)
        => (resp'.status = 404 /\ StoreUnchanged)]_vars

\* Every record of before except the i-th, in the same order.
AllBut(i) ==
    /\ Len(Store') = Len(Store) - 1
    /\ \A j \in 1..Len(Store') : Store'[j] = Store[IF j < i THEN j ELSE j + 1]

\* C5 as stated: a DELETE whose :id identifies a stored record removes
\* exactly that record and returns it, and every later GET of that id is
\* answered 404.
C5_Original ==
    [][/\ (RequestStep /\ IsDelete(req') /\ Identified(req') # 0)
            => /\ resp'.status = 200
               /\ resp'.body = <<Store[Identified(req')]>>
               /\ AllBut(Identified(req'))
       /\ (RequestStep /\ IsGetById(req') /\ NamedId(req') \in deletedIds)
            => resp'.status = 404]_vars

\* C5, amended: a DELETE whose :id identifies a stored record and whose
\* storage operation (in the database variants) does not fail removes exactly
\* that record and returns it; when the operation fails the answer is 500
\* and nothing is removed; every later GET of a deleted id is answered 404.
C5_DeleteThenGone ==
    [][/\ (RequestStep /\ IsDelete(req') /\ Identified(req') # 0 /\ ~req'.fails)
            => /\ resp'.status = 200
               /\ resp'.body = <<Store[Identified(req')]>>
               /\ AllBut(Identified(req'))
       /\ (RequestStep /\ IsDelete(req') /\ Identified(req') # 0 /\ req'.fails)
            => (resp'.status = 500 /\ StoreUnchanged)
       /\ (RequestStep /\ IsGetById(req') /\ NamedId(req') \in deletedIds)
            => resp'.status = 404]_vars

\* A GET of a deleted id was answered 404 after a later create.
C5_Witness ==
    /\ IsGetById(req) /\ resp.status = 404
    /\ NamedId(req) \in deletedIds
    /\ nCreated > 0 /\ nDeleted > 0
    /\ Len(Store) = initialCount + Len(initialEvents) * Len(seedLog)

\* C6: in the in-memory variant a PUT on an existing id keeps the record's id
\* and position whatever the body, changes no other record and leaves nextId;
\* a PUT on an id not in the store is answered 404 and changes nothing.
C6_PutPreservesId ==
    [][(RequestStep /\ IsPut(req'))
        => LET i == Identified(req')
           IN  IF i = 0
               THEN resp'.status = 404 /\ StoreUnchanged
               ELSE /\ resp'.status = 200
                    /\ Len(events') = Len(events)
                    /\ events'[i]["id"] = events[i]["id"]
                    /\ \A j \in 1..Len(events) : j # i => events'[j] = events[j]
                    /\ nextId' = nextId]_vars

\* A PUT whose body carries another id was answered with the record under its
\* original id.
C6_Witness ==
    /\ IsPut(req) /\ resp.status = 200
    /\ req.body["id"] = Num(2)
    /\ resp.body[1]["id"] = Num(3)
    /\ events[3]["id"] = Num(3)

\* C7 as stated: in the in-memory variant a PUT on an existing id is a full
\* replace: the stored record is the body's fields plus the original id, and
\* no value of the previous record that is absent from the body survives.
C7_Original ==
    [][(RequestStep /\ IsPut(req') /\ Identified(req') # 0)
        => \A k \in EventKeys :
              events'[Identified(req')][k] =
                  IF k = "id" THEN events[Identified(req')]["id"]
                  ELSE IF k \in BodyKeys THEN req'.body[k] ELSE Undef]_vars

\* C7, amended: in the in-memory variant a PUT on an existing id merges the
\* body into the record: a field the body carries takes the body's value, a
\* field absent from the body keeps its previous value, the id stays the
\* original one and updatedAt is set to the time of the update.
C7_PutMerges ==
    [][(RequestStep /\ IsPut(req') /\ Identified(req') # 0)
        => \A k \in EventKeys :
              events'[Identified(req')][k] =
                  IF k = "id" THEN events[Identified(req')]["id"]
                  ELSE IF k = "updatedAt" THEN ToISOString(now')
                  ELSE IF k \in BodyKeys /\ req'.body[k] # Undef THEN req'.body[k]
                  ELSE events[Identified(req')][k]]_vars

\* A PUT that carries a title and no date left the record with the new title
\* and its previous date.
C7_Witness ==
    /\ IsPut(req) /\ resp.status = 200
    /\ req.body["title"] = Str(<<"b">>) /\ req.body["date"] = Undef
    /\ resp.body[1]["title"] = Str(<<"b">>)
    /\ resp.body[1]["date"] = Str(<<"2025-02-05">>)
    /\ resp.body[1]["updatedAt"] # Undef

\* C8: in the database variants a request whose storage operation fails is
\* answered 500 and the store is unchanged.
C8_StorageFailure500 ==
    [][(RequestStep /\ IsDb /\ req'.fails) => (resp'.status = 500 /\ StoreUnchanged)]_vars

\* The stored documents whose createdBy is this text.
OwnedBy(email) == {collection[i] : i \in {j \in 1..Len(collection) : collection[j]["createdBy"] = Str(email)}}

\* C9: in the database variants GET /api/events/user/:email returns exactly
\* the stored records whose createdBy equals the given email and does not
\* change the store. Stated for the requests whose storage operation does
\* not fail.
C9_OwnerFilter ==
    [][(RequestStep /\ IsGetByUser(req') /\ ~req'.fails)
        => /\ resp'.status = 200
           /\ {resp'.body[i] : i \in 1..Len(resp'.body)} = OwnedBy(req'.param)
           /\ Len(resp'.body) = Cardinality(OwnedBy(req'.param))
           /\ StoreUnchanged]_vars

\* C10: the seed batch is never inserted into a collection that holds a
\* record, and never more than once; seedLog holds the size of the collection
\* at each insertMany of the batch.
C10_SeedOnlyIfEmpty ==
    /\ Len(seedLog) <= 1
    /\ \A i \in 1..Len(seedLog) : seedLog[i] = 0

\* The ids of the stored events are numbers, pairwise distinct and below
\* nextId, and none is the id of a deleted event.
IdsFresh ==
    /\ \A i \in 1..Len(events) :
          /\ events[i]["id"].ty = "number" /\ events[i]["id"] # NaN
          /\ events[i]["id"].n < nextId
          /\ events[i]["id"] \notin deletedIds
    /\ \A i, j \in 1..Len(events) : events[i]["id"] = events[j]["id"] => i = j

\* C11: in the in-memory variant, in every state reached by POST, PUT and
\* DELETE requests, the ids of the stored events are pairwise distinct and
\* each is below nextId, and nextId never decreases; so the id of a deleted
\* event is never given to an event created later.
C11_IdsDistinctBelowNextId ==
    /\ [](variant = "memory" => IdsFresh)
    /\ [][variant = "memory" => nextId' >= nextId]_vars

\* The event with id 3 was deleted and an event created: the list holds the
\* ids 1, 2 and 4, and nextId is 5.
C11_Witness ==
    /\ variant = "memory"
    /\ Num(3) \in deletedIds /\ nCreated = 1
    /\ Len(events) = 3 /\ events[3]["id"] = Num(4)
    /\ nextId = 5

\* C12: in the in-memory variant, in every state reached by POST, PUT and
\* DELETE requests, every stored event has a present, non-empty value for
\* each required field.
C12_RequiredFieldsNonEmpty ==
    variant = "memory" =>
        \A i \in 1..Len(events) : \A k \in RequiredMem :
            events[i][k] # Undef /\ events[i][k] # Str(<<>>)

====
